---- MODULE Spec2Model ----
(***************************************************************************)
(* Dynamic Time Warping with a Sakoe-Chiba band and upper-bound pruning,   *)
(* as implemented in src/dtw.py: euclian_distance, dtw_helper, trace, dtw. *)
(*                                                                         *)
(* Python sequences are 0-based, TLA+ sequences 1-based: t1[i-1] of the    *)
(* source is t1[i] here.  The numpy matrix D is a function over            *)
(* (0..r) \X (0..c); numpy's negative indices (wrap-around) and its        *)
(* IndexError are modelled by InRange / Wrap / At.                         *)
(***************************************************************************)
EXTENDS Integers, Sequences, FiniteSets, TLC

VARIABLES t1, t2, time_warp_window, pc, D, upper_bound, search_start,
          search_end, row, i, j, steps, result

vars == <<t1, t2, time_warp_window, pc, D, upper_bound, search_start,
          search_end, row, i, j, steps, result>>

----------------------------------------------------------------------------
(* Bounds of the explored inputs *)

MaxLen == 3

MaxVal == 2

MaxWin == 3

WideLen == 6

WideWin == 4

(* np.inf, as a value above every finite accumulated cost of the inputs *)
Inf == 1000000

----------------------------------------------------------------------------
(* Input sets *)

SeqsOver(n, vals) == UNION {[1..k -> vals] : k \in 0..n}

FixT1 == <<1, 3, 4, 9, 8, 2, 1, 5, 7, 3>>

FixT2 == <<1, 6, 2, 3, 0, 9, 4, 3, 6, 3>>

FixPath == << <<0,0>>, <<1,1>>, <<2,2>>, <<2,3>>, <<2,4>>, <<3,5>>, <<4,6>>,
              <<5,6>>, <<6,7>>, <<7,8>>, <<8,9>>, <<9,9>>, <<10,10>> >>

SmallInputs == SeqsOver(MaxLen, 0..MaxVal) \X SeqsOver(MaxLen, 0..MaxVal) \X (-1..MaxWin)

FixtureInputs == {<<FixT1, FixT2, 5>>, <<FixT1, FixT2, 10>>}

WideInputs == SeqsOver(WideLen, {0, 1}) \X SeqsOver(MaxLen, {0, 1}) \X (0..WideWin)

----------------------------------------------------------------------------
(* Pure helpers *)

Max(a, b) == IF a >= b THEN a ELSE b

Min(a, b) == IF a <= b THEN a ELSE b

Min3(a, b, c) == Min(a, Min(b, c))

(* float addition with np.inf: x + inf = inf *)
Plus(d, m) == IF m = Inf THEN Inf ELSE d + m

euclian_distance(x, y) == (x - y) * (x - y)

RECURSIVE ZipSum(_, _, _)
ZipSum(a, b, k) ==
    IF k > Min(Len(a), Len(b)) THEN 0
    ELSE euclian_distance(a[k], b[k]) + ZipSum(a, b, k + 1)

UpperBound(a, b) == ZipSum(a, b, 1)

(* a matrix whose whole first row is 0 *)
InitD_ZeroRow(r, c) == [p \in (0..r) \X (0..c) |-> IF p[1] = 0 THEN 0 ELSE Inf]

(* np.full((r+1, c+1), np.inf) with D[0, 0] = 0 *)
InitD(r, c) == [p \in (0..r) \X (0..c) |-> IF p = <<0, 0>> THEN 0 ELSE Inf]

(* "if below_upper_bound == False: search_start = j + 1", ignoring the test *)
AdvanceStart_Unguarded(below, ss, jj) == jj + 1

(* the search_start left by a cell above the bound *)
AdvanceStart(below, ss, jj) == IF below = FALSE THEN jj + 1 ELSE ss

(* the inner (column) loop of dtw_helper, from column jj on *)
RECURSIVE ScanCols(_, _, _, _, _, _, _, _)
ScanCols(s, a, b, ub, ii, jj, j_end, s_end) ==
    IF jj > j_end THEN s
    ELSE LET v  == Plus(euclian_distance(a[ii], b[jj]),
                        Min3(s.D[<<ii-1, jj-1>>], s.D[<<ii-1, jj>>], s.D[<<ii, jj-1>>]))
             D1 == [s.D EXCEPT ![<<ii, jj>>] = v]
         IN IF v > ub
            THEN LET s1 == [s EXCEPT !.D = D1,
                                     !.search_start =
                                         AdvanceStart(s.below_upper_bound, @, jj)]
                 IN IF jj >= s_end THEN s1
                    ELSE ScanCols(s1, a, b, ub, ii, jj + 1, j_end, s_end)
            ELSE ScanCols([s EXCEPT !.D = D1,
                                    !.below_upper_bound = TRUE,
                                    !.next_search_end = jj + 1],
                          a, b, ub, ii, jj + 1, j_end, s_end)

(* one iteration of the row loop of dtw_helper *)
HelperRowOf(h, a, b, ub, w, ii) ==
    LET j_begin == Max(h.search_start, ii - w)
        j_end   == Min(ii + w, Len(b))
        s == ScanCols([D |-> h.D, search_start |-> h.search_start,
                       below_upper_bound |-> FALSE, next_search_end |-> ii],
                      a, b, ub, ii, j_begin, j_end, h.search_end)
    IN [D |-> s.D, search_start |-> s.search_start, search_end |-> s.next_search_end]

RECURSIVE HelperRows(_, _, _, _, _, _)
HelperRows(h, a, b, ub, w, ii) ==
    IF ii > Len(a) THEN h
    ELSE HelperRows(HelperRowOf(h, a, b, ub, w, ii), a, b, ub, w, ii + 1)

(* the matrix returned by dtw_helper(a, b, euclian_distance, w) *)
dtw_helper(a, b, w) ==
    HelperRows([D |-> InitD(Len(a), Len(b)), search_start |-> 1, search_end |-> 1],
               a, b, UpperBound(a, b), w, 1).D

(* numpy indexing of an axis of size n: -n..n-1 is legal, negatives wrap *)
InRange(k, n) == (-n <= k) /\ (k <= n - 1)

Wrap(k, n) == IF k < 0 THEN k + n ELSE k

At(M, r, c, ii, jj) == M[<<Wrap(ii, r + 1), Wrap(jj, c + 1)>>]

(* the index of the last minimum instead of the first *)
argmin_Last(a, b, c) == IF c <= a /\ c <= b THEN 2 ELSE IF b <= a THEN 1 ELSE 0

(* np.argmin of a triple: index of the first minimum *)
argmin(a, b, c) == IF a <= b /\ a <= c THEN 0 ELSE IF b <= c THEN 1 ELSE 2

----------------------------------------------------------------------------
(* The program: dtw(t1, t2, time_warp_window) *)

R == Len(t1)

C == Len(t2)

InitOn(inputs) ==
    /\ \E inp \in inputs :
          /\ t1 = inp[1]
          /\ t2 = inp[2]
          /\ time_warp_window = inp[3]
    /\ pc = "dtw_helper"
    /\ upper_bound = UpperBound(t1, t2)
    /\ D = InitD(Len(t1), Len(t2))
    /\ search_start = 1
    /\ search_end = 1
    /\ row = 1
    /\ i = 0
    /\ j = 0
    /\ steps = <<>>
    /\ result = <<>>

Init == InitOn(SmallInputs \cup FixtureInputs)

InitWide == InitOn(WideInputs)

(* dtw_helper: one iteration of "for i in range(1, r+1)" *)
HelperRow ==
    /\ pc = "dtw_helper"
    /\ row <= R
    /\ LET h == HelperRowOf([D |-> D, search_start |-> search_start,
                             search_end |-> search_end],
                            t1, t2, upper_bound, time_warp_window, row)
       IN /\ D' = h.D
          /\ search_start' = h.search_start
          /\ search_end' = h.search_end
    /\ row' = row + 1
    /\ UNCHANGED <<t1, t2, time_warp_window, pc, upper_bound, i, j, steps, result>>

(* dtw_helper returns D; trace starts at the last cell *)
HelperReturn ==
    /\ pc = "dtw_helper"
    /\ row > R
    /\ pc' = "trace"
    /\ i' = R
    /\ j' = C
    /\ steps' = << <<R, C>> >>
    /\ UNCHANGED <<t1, t2, time_warp_window, D, upper_bound, search_start,
                   search_end, row, result>>

(* trace: one iteration of "while (i > 0) or (j > 0)" *)
TraceStep ==
    /\ pc = "trace"
    /\ (i > 0) \/ (j > 0)
    /\ IF /\ InRange(i - 1, R + 1) /\ InRange(i, R + 1)
          /\ InRange(j - 1, C + 1) /\ InRange(j, C + 1)
       THEN LET index == argmin(At(D, R, C, i - 1, j - 1),
                                At(D, R, C, i - 1, j),
                                At(D, R, C, i, j - 1))
                ni == IF index = 0 \/ index = 1 THEN i - 1 ELSE i
                nj == IF index = 0 \/ index = 2 THEN j - 1 ELSE j
            IN /\ i' = ni
               /\ j' = nj
               /\ steps' = << <<ni, nj>> >> \o steps
               /\ pc' = pc
       ELSE /\ pc' = "IndexError"
            /\ UNCHANGED <<i, j, steps>>
    /\ UNCHANGED <<t1, t2, time_warp_window, D, upper_bound, search_start,
                   search_end, row, result>>

(* trace returns steps; dtw returns (D[len(t1), len(t2)], steps, D) *)
DtwReturn ==
    /\ pc = "trace"
    /\ ~((i > 0) \/ (j > 0))
    /\ pc' = "done"
    /\ result' = <<D[<<R, C>>], steps, D>>
    /\ UNCHANGED <<t1, t2, time_warp_window, D, upper_bound, search_start,
                   search_end, row, i, j, steps>>

Next == HelperRow \/ HelperReturn \/ TraceStep \/ DtwReturn

Spec == Init /\ [][Next]_vars

SpecWide == InitWide /\ [][Next]_vars

----------------------------------------------------------------------------
(* Reference recurrences: every in-band cell filled, no pruning *)

RECURSIVE FillCells(_, _, _, _, _, _)
FillCells(M, a, b, w, ii, jj) ==
    IF ii > Len(a) THEN M
    ELSE IF jj > Min(ii + w, Len(b))
         THEN FillCells(M, a, b, w, ii + 1, Max(1, ii + 1 - w))
         ELSE FillCells([M EXCEPT ![<<ii, jj>>] =
                            Plus(euclian_distance(a[ii], b[jj]),
                                 Min3(M[<<ii-1, jj-1>>], M[<<ii-1, jj>>], M[<<ii, jj-1>>]))],
                        a, b, w, ii, jj + 1)

BandedDTW(a, b, w) == FillCells(InitD(Len(a), Len(b)), a, b, w, 1, Max(1, 1 - w))

PlainDTW(a, b) == BandedDTW(a, b, Len(a) + Len(b))

Built == pc \in {"trace", "done", "IndexError"}

Cells == (0..R) \X (0..C)

UnitSteps == {<<1, 1>>, <<1, 0>>, <<0, 1>>}

RECURSIVE PathCost(_, _)
PathCost(p, k) ==
    IF k > Len(p) THEN 0
    ELSE (IF p[k] \in (1..R) \X (1..C)
          THEN euclian_distance(t1[p[k][1]], t2[p[k][2]])
          ELSE 0) + PathCost(p, k + 1)

----------------------------------------------------------------------------
(* C1: whenever time_warp_window >= max(r, c), the final cell D[r,c] built *)
(* by dtw_helper equals the final cell of the plain DTW recurrence (no     *)
(* window, no pruning), for all lengths including r # c.                   *)
C1_UnboundedWindowEquivalence ==
    (Built /\ time_warp_window >= Max(R, C))
        => D[<<R, C>>] = PlainDTW(t1, t2)[<<R, C>>]

(* C2: for every window >= 0 the path returned by dtw starts at (0,0),     *)
(* ends at (len(T1), len(T2)), advances by one of (1,1), (1,0), (0,1) at   *)
(* every step, and has no negative coordinate.                             *)
C2_PathValidity ==
    (pc = "done" /\ time_warp_window >= 0)
        => /\ result[2][1] = <<0, 0>>
           /\ result[2][Len(result[2])] = <<R, C>>
           /\ \A k \in 1..(Len(result[2]) - 1) :
                 <<result[2][k+1][1] - result[2][k][1],
                   result[2][k+1][2] - result[2][k][2]>> \in UnitSteps
           /\ \A k \in 1..Len(result[2]) :
                 result[2][k][1] >= 0 /\ result[2][k][2] >= 0

(* C3: for every window >= 0 the distances distance(T1[i-1], T2[j-1])      *)
(* summed over the returned path without the origin give exactly the       *)
(* returned cost D[len(T1), len(T2)].                                      *)
C3_CostConsistency ==
    (pc = "done" /\ time_warp_window >= 0)
        => /\ \A k \in 1..Len(result[2]) :
                 result[2][k] # <<0, 0>> => result[2][k] \in (1..R) \X (1..C)
           /\ PathCost(result[2], 1) = result[1]

(* C4: for fixed T1, T2 and windows 0 <= w1 <= w2, the final cost built    *)
(* with w2 is never greater than the one built with w1.                    *)
C4_MonotonicWindow ==
    (pc = "trace" /\ Len(steps) = 1 /\ time_warp_window >= 0)
        => \A w2 \in time_warp_window..WideWin :
              dtw_helper(t1, t2, w2)[<<R, C>>] <= D[<<R, C>>]

(* C5: a call with time_warp_window < 0 is rejected at entry: dtw_helper   *)
(* computes no cell and hands no matrix to trace, and dtw returns nothing. *)
C5_InvalidWindowRejected ==
    (time_warp_window < 0)
        => /\ pc \notin {"trace", "done"}
           /\ result = <<>>

(* C6: when the final cell D[r,c] is +infinity, dtw does not return        *)
(* +infinity as the cost together with a traced path.                      *)
C6_UnreachableAlignmentReported ==
    (pc = "done") => result[1] # Inf

(* C7: both sequences empty: dtw returns cost 0, path [(0,0)] and the 1x1  *)
(* matrix with D[0,0] = 0.  Exactly one sequence empty and window >= the   *)
(* other's length: dtw completes without an index error and returns either *)
(* a numeric cost or an explicit no-alignment outcome, never a path with   *)
(* coordinates outside [0..r] x [0..c].                                    *)
C7_DegenerateInputs ==
    /\ (pc = "done" /\ R = 0 /\ C = 0)
          => result = <<0, << <<0, 0>> >>, [p \in {<<0, 0>>} |-> 0]>>
    /\ ((R = 0) # (C = 0) /\ time_warp_window >= Max(R, C))
          => /\ pc # "IndexError"
             /\ (pc = "done")
                   => /\ result[1] # Inf
                      /\ \A k \in 1..Len(result[2]) : result[2][k] \in Cells

----------------------------------------------------------------------------
(* C8: every trace step taken from a cell (i,j) with i >= 1 and j >= 1     *)
(* moves to a predecessor holding the minimum of the diagonal, vertical    *)
(* and horizontal values, the vertical one only when the diagonal is not   *)
(* a minimum and the horizontal one only when neither of the others is;    *)
(* the fixture with window 5 returns exactly the documented path.          *)
C8_TieBreakStep ==
    (pc = "trace" /\ i >= 1 /\ j >= 1)
        => LET d == D[<<i-1, j-1>>]
               v == D[<<i-1, j>>]
               h == D[<<i, j-1>>]
               m == Min3(d, v, h)
           IN /\ pc' = "trace"
              /\ <<i', j'>> \in {<<i-1, j-1>>, <<i-1, j>>, <<i, j-1>>}
              /\ D[<<i', j'>>] = m
              /\ (<<i', j'>> = <<i-1, j>>) => (d > m)
              /\ (<<i', j'>> = <<i, j-1>>) => (d > m /\ v > m)
              /\ steps' = << <<i', j'>> >> \o steps

C8_FixturePath ==
    (pc' = "done" /\ t1 = FixT1 /\ t2 = FixT2 /\ time_warp_window = 5)
        => result'[2] = FixPath

C8_TieBreak == [][C8_TieBreakStep /\ C8_FixturePath]_vars

(* a returned path on which some step resolved a tie between equal minima *)
C8_Witness ==
    /\ pc = "done"
    /\ \E k \in 1..(Len(steps) - 1) :
          LET p == steps[k + 1]
          IN /\ p[1] >= 1 /\ p[2] >= 1
             /\ D[steps[k]] < Inf
             /\ Cardinality({q \in {<<p[1]-1, p[2]-1>>, <<p[1]-1, p[2]>>, <<p[1], p[2]-1>>} :
                                D[q] = D[steps[k]]}) >= 2

(* C9: for equal-length inputs and every window >= 0, the final cost built *)
(* with pruning equals that of the banded recurrence without pruning, and  *)
(* every cell where the pruned matrix differs from the unpruned one holds  *)
(* a value greater than upper_bound in the unpruned matrix.                *)
C9_PruningExact ==
    (Built /\ R = C /\ time_warp_window >= 0)
        => LET B == BandedDTW(t1, t2, time_warp_window)
           IN /\ D[<<R, C>>] = B[<<R, C>>]
              /\ \A p \in Cells : (D[p] # B[p]) => (B[p] > upper_bound)

(* equal lengths, and the pruning skipped a cell the band contains *)
C9_Witness ==
    /\ Built /\ R = C /\ R >= 2 /\ time_warp_window >= 1
    /\ \E p \in Cells :
          /\ D[p] = Inf
          /\ BandedDTW(t1, t2, time_warp_window)[p] < Inf

(* C10: when window >= 0 and the final cell is finite, every iteration of  *)
(* the trace loop runs at a cell with i >= 1 and j >= 1, no index error    *)
(* occurs, every cell on the path is a matrix cell holding a finite value, *)
(* and the loop stops at (0,0) after at most r + c iterations.             *)
C10_TraceIndexSafety ==
    (Built /\ time_warp_window >= 0 /\ D[<<R, C>>] < Inf)
        => /\ pc # "IndexError"
           /\ (pc = "trace" /\ ((i > 0) \/ (j > 0))) => (i >= 1 /\ j >= 1)
           /\ \A k \in 1..Len(steps) : steps[k] \in Cells /\ D[steps[k]] < Inf
           /\ Len(steps) <= R + C + 1
           /\ (pc = "done") => (i = 0 /\ j = 0 /\ steps[1] = <<0, 0>>)

(* a completed trace over a finite, non-square matrix with several steps *)
C10_Witness ==
    /\ pc = "done" /\ time_warp_window >= 0 /\ D[<<R, C>>] < Inf
    /\ R # C /\ Len(steps) >= 4

====
